---- MODULE Spec2Model ----
(***************************************************************************)
(* Model of the two price-alert programs of the repository:                *)
(*   src/solana_multi_alert.py  (several watches, ledger alerts_sent)      *)
(*   src/solana_price_alert.py  (one watch, flag alert_sent)               *)
(* Prices and targets are integers in units of 0.001 USD; the comparisons  *)
(* of the programs (>=, <=) are order comparisons and keep their meaning.  *)
(* One behaviour is one process run of one of the two programs (prog).     *)
(***************************************************************************)
EXTENDS Integers, Sequences, FiniteSets, TLC

\* Number of polling cycles explored (the programs' loops are unbounded).
MaxCycles == 4

\* ------------------------------------------------------------------------
\* Data
\* ------------------------------------------------------------------------
Addrs == {"A", "B"}

Prices == {10, 20, 25, 30, 31, 50}

Directions == {"above", "below"}

Watch(a, t, d) == [addr |-> a, target |-> t, direction |-> d]

\* The TOKENS mappings explored (a dict keeps insertion order: a sequence).
TokenConfigs ==
  { <<>>,
    << Watch("A", 30, "above") >>,
    << Watch("A", 50, "above"), Watch("B", 10, "below") >> }

\* TARGET_PRICE values explored for the single-token program (default 0.03).
TargetPrices == {30, 25}

\* What get_token_price returns.
None == [quote |-> FALSE, price |-> 0, symbol |-> ""]

Quote(p, s) == [quote |-> TRUE, price |-> p, symbol |-> s]

\* What the price endpoint can answer to requests.get.
Failure(k) ==
  [kind |-> k, pairs |-> "none", price_field |-> "none", priceUsd |-> 0,
   baseToken |-> "none"]

Json(ps, pf, p, bt) ==
  [kind |-> "json", pairs |-> ps, price_field |-> pf, priceUsd |-> p,
   baseToken |-> bt]

Responses ==
  {Failure(k) : k \in {"neterr", "http_error", "badjson"}}
    \cup {Json(ps, "none", 0, "none") : ps \in {"absent", "empty"}}
    \cup {Json("list", pf, 0, bt) :
            pf \in {"absent", "null", "nonnumeric"},
            bt \in {"present", "absent", "null"}}
    \cup {Json("list", "number", p, bt) :
            p \in Prices, bt \in {"present", "absent", "null"}}

NoResponse == Failure("none")

\* What the notification endpoint can answer to requests.post.
PostOutcomes == {"ok", "neterr", "http_error"}

\* ------------------------------------------------------------------------
\* Pure functions of the programs
\* ------------------------------------------------------------------------

\* get_token_price, from the response on: any exception gives None; a first
\* pair without "priceUsd" is read as price 0 (pair.get("priceUsd", 0)); a
\* pair without "baseToken" gets the default symbol.
get_token_price(r) ==
  IF r.kind # "json" THEN None
  ELSE IF r.pairs # "list" THEN None
  ELSE IF r.price_field \in {"null", "nonnumeric"} THEN None
  ELSE IF r.baseToken = "null" THEN None
  ELSE Quote(IF r.price_field = "absent" THEN 0 ELSE r.priceUsd,
             IF r.baseToken = "present" THEN "SYM" ELSE "???")

\* `if token_info:` a non-empty dict is true, None is false.
Truthy(info) == info.quote

\* Variant with strict comparisons (the target itself does not qualify).
check_price_condition_Strict(price, config) ==
  IF config.direction = "above"
  THEN price > config.target
  ELSE price < config.target

\* Variant that returns FALSE for a direction it does not know.
check_price_condition_Rejecting(price, config) ==
  IF config.direction = "above"
  THEN price >= config.target
  ELSE IF config.direction = "below"
       THEN price <= config.target
       ELSE FALSE

check_price_condition(price, config) ==
  IF config.direction = "above"
  THEN price >= config.target
  ELSE price <= config.target

\* send_pushover_alert, from the outcome of the POST on.
send_pushover_alert(outcome) == outcome = "ok"

\* ------------------------------------------------------------------------
\* State
\* ------------------------------------------------------------------------
VARIABLES
  prog,            \* which program this run is: "multi", "single", "eval",
                   \* or "pair" for both side by side
  \* --- solana_multi_alert.py
  TOKENS,          \* the configured watches, in dict order
  alerts_sent,     \* the ledger: set of token addresses
  pc,              \* position in main
  cycle,           \* number of the current pass of `while True`
  idx,             \* number of TOKENS items the for loop has taken
  all_alerted,
  response,        \* the HTTP response inside get_token_price
  token_info,
  \* history of the multi-token run
  sent,            \* per token: number of send_pushover_alert calls that returned True
  firedCycle,      \* per token: cycle in which it was added to the ledger, 0 if none
  lastFailCycle,   \* per token: last cycle in which send_pushover_alert returned False
  scen,            \* per token: length of the prefix of Script its fetches matched, -1 if diverged
  cyc,             \* per token: what happened to it in the current cycle
  \* --- solana_price_alert.py
  TARGET_PRICE,
  alert_sent,
  S_pc,
  S_cycle,
  S_response,
  S_token_info,
  \* history of the single-token run
  S_sent,
  S_firedCycle,
  S_lastFailCycle,
  S_scen,
  S_cyc,
  S_fetches,
  S_notifies,
  S_sleeps,
  \* --- the evaluator applied on its own
  e_price,
  e_config,
  e_result,
  e_pc,
  \* --- the environment, where a specification fixes its answers
  good,            \* per token: in this pass the endpoints answer in its favour
  feedResp,        \* the price endpoint's answer of this pass, once given
  feedPost         \* the notification endpoint's answer of this pass, once given

multiVars ==
  <<TOKENS, alerts_sent, pc, cycle, idx, all_alerted, response, token_info,
    sent, firedCycle, lastFailCycle, scen, cyc>>

singleVars ==
  <<TARGET_PRICE, alert_sent, S_pc, S_cycle, S_response, S_token_info,
    S_sent, S_firedCycle, S_lastFailCycle, S_scen, S_cyc, S_fetches,
    S_notifies, S_sleeps>>

evalVars == <<e_price, e_config, e_result, e_pc>>

envVars == <<good, feedResp, feedPost>>

vars == <<prog, multiVars, singleVars, evalVars, envVars>>

RunsMulti == prog \in {"multi", "pair"}

RunsSingle == prog \in {"single", "pair"}

\* The price sequence of the spec's first scenario: 0.02, 0.025, 0.031.
Script == <<20, 25, 31>>

ScenNext(s, info) ==
  IF s = Len(Script) THEN s
  ELSE IF s >= 0 /\ info.quote /\ info.price = Script[s + 1] THEN s + 1
  ELSE -1

NotYet ==
  [skipped |-> FALSE, gets |-> 0, fetched |-> "no", price |-> 0,
   evald |-> "no", notified |-> "no"]

\* ------------------------------------------------------------------------
\* Initial states
\* ------------------------------------------------------------------------
MultiIdle ==
  /\ TOKENS = <<>>
  /\ alerts_sent = {}
  /\ pc = "idle"
  /\ cycle = 0
  /\ idx = 0
  /\ all_alerted = FALSE
  /\ response = NoResponse
  /\ token_info = None
  /\ sent = [a \in Addrs |-> 0]
  /\ firedCycle = [a \in Addrs |-> 0]
  /\ lastFailCycle = [a \in Addrs |-> 0]
  /\ scen = [a \in Addrs |-> 0]
  /\ cyc = [a \in Addrs |-> NotYet]

SingleIdle ==
  /\ TARGET_PRICE = 0
  /\ alert_sent = FALSE
  /\ S_pc = "idle"
  /\ S_cycle = 0
  /\ S_response = NoResponse
  /\ S_token_info = None
  /\ S_sent = 0
  /\ S_firedCycle = 0
  /\ S_lastFailCycle = 0
  /\ S_scen = 0
  /\ S_cyc = NotYet
  /\ S_fetches = 0
  /\ S_notifies = 0
  /\ S_sleeps = 0

EvalIdle ==
  /\ e_price = 0
  /\ e_config = Watch("A", 0, "above")
  /\ e_result = FALSE
  /\ e_pc = "idle"

\* The environment answers freely: nothing is fixed.
EnvIdle ==
  /\ good = [a \in Addrs |-> FALSE]
  /\ feedResp = NoResponse
  /\ feedPost = "unset"

\* solana_multi_alert.py at the first `while True`.
MultiInit ==
  /\ TOKENS \in TokenConfigs
  /\ alerts_sent = {}
  /\ pc = "top"
  /\ cycle = 1
  /\ idx = 0
  /\ all_alerted = FALSE
  /\ response = NoResponse
  /\ token_info = None
  /\ sent = [a \in Addrs |-> 0]
  /\ firedCycle = [a \in Addrs |-> 0]
  /\ lastFailCycle = [a \in Addrs |-> 0]
  /\ scen = [a \in Addrs |-> 0]
  /\ cyc = [a \in Addrs |-> NotYet]

\* solana_price_alert.py at the first `while True`.
SingleInit ==
  /\ TARGET_PRICE \in TargetPrices
  /\ alert_sent = FALSE
  /\ S_pc = "get"
  /\ S_cycle = 1
  /\ S_response = NoResponse
  /\ S_token_info = None
  /\ S_sent = 0
  /\ S_firedCycle = 0
  /\ S_lastFailCycle = 0
  /\ S_scen = 0
  /\ S_cyc = NotYet
  /\ S_fetches = 0
  /\ S_notifies = 0
  /\ S_sleeps = 0

Init ==
  \/ prog = "multi" /\ MultiInit /\ SingleIdle /\ EvalIdle /\ EnvIdle
  \/ prog = "single" /\ MultiIdle /\ SingleInit /\ EvalIdle /\ EnvIdle

\* ------------------------------------------------------------------------
\* solana_multi_alert.py: main
\* ------------------------------------------------------------------------
CurWatch == TOKENS[idx]

token_address == CurWatch.addr

\* Variant in which the ledger is created anew in every pass.
CycleStart_FreshLedger ==
  /\ RunsMulti
  /\ UNCHANGED <<prog, singleVars, evalVars, envVars>>
  /\ pc = "top"
  /\ all_alerted' = TRUE
  /\ idx' = 0
  /\ cyc' = [a \in Addrs |-> NotYet]
  /\ pc' = "for"
  /\ alerts_sent' = {}
  /\ UNCHANGED <<TOKENS, cycle, response, token_info, sent, firedCycle,
                 lastFailCycle, scen>>

\* line 134-138: a pass of `while True` begins.
CycleStart ==
  /\ RunsMulti
  /\ UNCHANGED <<prog, singleVars, evalVars, envVars>>
  /\ pc = "top"
  /\ all_alerted' = TRUE
  /\ idx' = 0
  /\ cyc' = [a \in Addrs |-> NotYet]
  /\ pc' = "for"
  /\ UNCHANGED <<TOKENS, alerts_sent, cycle, response, token_info, sent,
                 firedCycle, lastFailCycle, scen>>

\* Variant without the ledger check of line 142.
ForStep_NoLedgerCheck ==
  /\ RunsMulti
  /\ UNCHANGED <<prog, singleVars, evalVars, envVars>>
  /\ pc = "for"
  /\ IF idx = Len(TOKENS)
     THEN /\ pc' = "exit_check"
          /\ UNCHANGED <<idx, all_alerted>>
     ELSE /\ idx' = idx + 1
          /\ all_alerted' = FALSE
          /\ pc' = "get"
  /\ UNCHANGED <<TOKENS, alerts_sent, cycle, response, token_info, sent,
                 firedCycle, lastFailCycle, scen, cyc>>

\* Variant with `all_alerted = False` placed before the ledger check.
ForStep_FlagBeforeCheck ==
  /\ RunsMulti
  /\ UNCHANGED <<prog, singleVars, evalVars, envVars>>
  /\ pc = "for"
  /\ IF idx = Len(TOKENS)
     THEN /\ pc' = "exit_check"
          /\ UNCHANGED <<idx, all_alerted, cyc>>
     ELSE /\ idx' = idx + 1
          /\ all_alerted' = FALSE
          /\ IF TOKENS[idx + 1].addr \in alerts_sent
             THEN /\ pc' = "for"
                  /\ cyc' = [cyc EXCEPT ![TOKENS[idx + 1].addr].skipped = TRUE]
             ELSE /\ pc' = "get"
                  /\ UNCHANGED cyc
  /\ UNCHANGED <<TOKENS, alerts_sent, cycle, response, token_info, sent,
                 firedCycle, lastFailCycle, scen>>

\* line 140-145: the for loop takes the next item, skips it when it is in the
\* ledger, and leaves the loop when there is none.
ForStep ==
  /\ RunsMulti
  /\ UNCHANGED <<prog, singleVars, evalVars, envVars>>
  /\ pc = "for"
  /\ IF idx = Len(TOKENS)
     THEN /\ pc' = "exit_check"
          /\ UNCHANGED <<idx, all_alerted, cyc>>
     ELSE /\ idx' = idx + 1
          /\ IF TOKENS[idx + 1].addr \in alerts_sent
             THEN /\ pc' = "for"
                  /\ cyc' = [cyc EXCEPT ![TOKENS[idx + 1].addr].skipped = TRUE]
                  /\ UNCHANGED all_alerted
             ELSE /\ all_alerted' = FALSE
                  /\ pc' = "get"
                  /\ UNCHANGED cyc
  /\ UNCHANGED <<TOKENS, alerts_sent, cycle, response, token_info, sent,
                 firedCycle, lastFailCycle, scen>>

\* line 146, 63: requests.get answers (or raises).
HttpGet ==
  /\ RunsMulti
  /\ UNCHANGED <<prog, singleVars, evalVars, envVars>>
  /\ pc = "get"
  /\ \E r \in Responses : response' = r
  /\ pc' = "parse"
  /\ cyc' = [cyc EXCEPT ![token_address].gets = @ + 1]
  /\ UNCHANGED <<TOKENS, alerts_sent, cycle, idx, all_alerted, token_info,
                 sent, firedCycle, lastFailCycle, scen>>

\* Variant without the `if token_info:` test of line 148.
Parse_NoneNotTested ==
  /\ RunsMulti
  /\ UNCHANGED <<prog, singleVars, evalVars, envVars>>
  /\ pc = "parse"
  /\ LET info == get_token_price(response) IN
       /\ token_info' = info
       /\ scen' = [scen EXCEPT ![token_address] = ScenNext(@, info)]
       /\ pc' = "check"
       /\ IF Truthy(info)
          THEN cyc' = [cyc EXCEPT ![token_address].fetched = "quote",
                                  ![token_address].price = info.price]
          ELSE cyc' = [cyc EXCEPT ![token_address].fetched = "nodata"]
  /\ response' = NoResponse
  /\ UNCHANGED <<TOKENS, alerts_sent, cycle, idx, all_alerted, sent,
                 firedCycle, lastFailCycle>>

\* Variant that leaves the for loop when a fetch gave no data.
Parse_BreaksOnNoData ==
  /\ RunsMulti
  /\ UNCHANGED <<prog, singleVars, evalVars, envVars>>
  /\ pc = "parse"
  /\ LET info == get_token_price(response) IN
       /\ token_info' = info
       /\ scen' = [scen EXCEPT ![token_address] = ScenNext(@, info)]
       /\ IF Truthy(info)
          THEN /\ pc' = "check"
               /\ cyc' = [cyc EXCEPT ![token_address].fetched = "quote",
                                     ![token_address].price = info.price]
          ELSE /\ pc' = "exit_check"
               /\ cyc' = [cyc EXCEPT ![token_address].fetched = "nodata"]
  /\ response' = NoResponse
  /\ UNCHANGED <<TOKENS, alerts_sent, cycle, idx, all_alerted, sent,
                 firedCycle, lastFailCycle>>

\* line 64-80, 146-148: get_token_price returns and main tests the result.
Parse ==
  /\ RunsMulti
  /\ UNCHANGED <<prog, singleVars, evalVars, envVars>>
  /\ pc = "parse"
  /\ LET info == get_token_price(response) IN
       /\ token_info' = info
       /\ scen' = [scen EXCEPT ![token_address] = ScenNext(@, info)]
       /\ IF Truthy(info)
          THEN /\ pc' = "check"
               /\ cyc' = [cyc EXCEPT ![token_address].fetched = "quote",
                                     ![token_address].price = info.price]
          ELSE /\ pc' = "for"
               /\ cyc' = [cyc EXCEPT ![token_address].fetched = "nodata"]
  /\ response' = NoResponse
  /\ UNCHANGED <<TOKENS, alerts_sent, cycle, idx, all_alerted, sent,
                 firedCycle, lastFailCycle>>

\* Variant that notifies again after a failed notify without looking at the
\* fresh price.
Check_RetriesPending ==
  /\ RunsMulti
  /\ UNCHANGED <<prog, singleVars, evalVars, envVars>>
  /\ pc = "check"
  /\ LET met == \/ check_price_condition(token_info.price, CurWatch)
                \/ lastFailCycle[token_address] > 0
     IN
       /\ cyc' = [cyc EXCEPT ![token_address].evald =
                               IF met THEN "true" ELSE "false"]
       /\ pc' = IF met THEN "send" ELSE "for"
  /\ UNCHANGED <<TOKENS, alerts_sent, cycle, idx, all_alerted, response,
                 token_info, sent, firedCycle, lastFailCycle, scen>>

\* line 149-162: the condition is evaluated on the fetched price.
\* Variant that notifies whatever check_price_condition returned.
Check_IgnoresResult ==
  /\ RunsMulti
  /\ UNCHANGED <<prog, singleVars, evalVars, envVars>>
  /\ pc = "check"
  /\ LET met == check_price_condition(token_info.price, CurWatch) IN
       /\ cyc' = [cyc EXCEPT ![token_address].evald =
                               IF met THEN "true" ELSE "false"]
       /\ pc' = "send"
  /\ UNCHANGED <<TOKENS, alerts_sent, cycle, idx, all_alerted, response,
                 token_info, sent, firedCycle, lastFailCycle, scen>>

Check ==
  /\ RunsMulti
  /\ UNCHANGED <<prog, singleVars, evalVars, envVars>>
  /\ pc = "check"
  /\ LET met == check_price_condition(token_info.price, CurWatch) IN
       /\ cyc' = [cyc EXCEPT ![token_address].evald =
                               IF met THEN "true" ELSE "false"]
       /\ pc' = IF met THEN "send" ELSE "for"
  /\ UNCHANGED <<TOKENS, alerts_sent, cycle, idx, all_alerted, response,
                 token_info, sent, firedCycle, lastFailCycle, scen>>

\* Variant that records the token in the ledger whatever send_pushover_alert
\* returned.
Send_MarksAlways ==
  /\ RunsMulti
  /\ UNCHANGED <<prog, singleVars, evalVars, envVars>>
  /\ pc = "send"
  /\ \E outcome \in PostOutcomes :
       /\ alerts_sent' = alerts_sent \cup {token_address}
       /\ IF send_pushover_alert(outcome)
          THEN /\ sent' = [sent EXCEPT ![token_address] = @ + 1]
               /\ firedCycle' = [firedCycle EXCEPT ![token_address] = cycle]
               /\ cyc' = [cyc EXCEPT ![token_address].notified = "ok"]
               /\ UNCHANGED lastFailCycle
          ELSE /\ lastFailCycle' = [lastFailCycle EXCEPT ![token_address] = cycle]
               /\ cyc' = [cyc EXCEPT ![token_address].notified = "fail"]
               /\ UNCHANGED <<sent, firedCycle>>
  /\ pc' = "for"
  /\ UNCHANGED <<TOKENS, cycle, idx, all_alerted, response, token_info, scen>>

\* Variant without the alerts_sent.add of line 171.
Send_LedgerNotUpdated ==
  /\ RunsMulti
  /\ UNCHANGED <<prog, singleVars, evalVars, envVars>>
  /\ pc = "send"
  /\ \E outcome \in PostOutcomes :
       IF send_pushover_alert(outcome)
       THEN /\ sent' = [sent EXCEPT ![token_address] = @ + 1]
            /\ firedCycle' = [firedCycle EXCEPT ![token_address] = cycle]
            /\ cyc' = [cyc EXCEPT ![token_address].notified = "ok"]
            /\ UNCHANGED lastFailCycle
       ELSE /\ lastFailCycle' = [lastFailCycle EXCEPT ![token_address] = cycle]
            /\ cyc' = [cyc EXCEPT ![token_address].notified = "fail"]
            /\ UNCHANGED <<sent, firedCycle>>
  /\ pc' = "for"
  /\ UNCHANGED <<TOKENS, alerts_sent, cycle, idx, all_alerted, response,
                 token_info, scen>>

\* line 170-171, 83-107: send_pushover_alert is called; the ledger is updated
\* when it returns True.
Send ==
  /\ RunsMulti
  /\ UNCHANGED <<prog, singleVars, evalVars, envVars>>
  /\ pc = "send"
  /\ \E outcome \in PostOutcomes :
       IF send_pushover_alert(outcome)
       THEN /\ alerts_sent' = alerts_sent \cup {token_address}
            /\ sent' = [sent EXCEPT ![token_address] = @ + 1]
            /\ firedCycle' = [firedCycle EXCEPT ![token_address] = cycle]
            /\ cyc' = [cyc EXCEPT ![token_address].notified = "ok"]
            /\ UNCHANGED lastFailCycle
       ELSE /\ lastFailCycle' = [lastFailCycle EXCEPT ![token_address] = cycle]
            /\ cyc' = [cyc EXCEPT ![token_address].notified = "fail"]
            /\ UNCHANGED <<alerts_sent, sent, firedCycle>>
  /\ pc' = "for"
  /\ UNCHANGED <<TOKENS, cycle, idx, all_alerted, response, token_info, scen>>

\* Variant whose exit test does not ask for a non-empty TOKENS.
ExitCheck_NoEmptyGuard ==
  /\ RunsMulti
  /\ UNCHANGED <<prog, singleVars, evalVars, envVars>>
  /\ pc = "exit_check"
  /\ pc' = IF all_alerted THEN "done" ELSE "sleep"
  /\ UNCHANGED <<TOKENS, alerts_sent, cycle, idx, all_alerted, response,
                 token_info, sent, firedCycle, lastFailCycle, scen, cyc>>

\* Variant that gives up after three passes.
ExitCheck_RetryLimit ==
  /\ RunsMulti
  /\ UNCHANGED <<prog, singleVars, evalVars, envVars>>
  /\ pc = "exit_check"
  /\ pc' = IF (all_alerted /\ Len(TOKENS) > 0) \/ cycle >= 3
           THEN "done" ELSE "sleep"
  /\ UNCHANGED <<TOKENS, alerts_sent, cycle, idx, all_alerted, response,
                 token_info, sent, firedCycle, lastFailCycle, scen, cyc>>

\* line 174-177: leave the loop when every token was found in the ledger.
ExitCheck ==
  /\ RunsMulti
  /\ UNCHANGED <<prog, singleVars, evalVars, envVars>>
  /\ pc = "exit_check"
  /\ pc' = IF all_alerted /\ Len(TOKENS) > 0 THEN "done" ELSE "sleep"
  /\ UNCHANGED <<TOKENS, alerts_sent, cycle, idx, all_alerted, response,
                 token_info, sent, firedCycle, lastFailCycle, scen, cyc>>

\* line 180: time.sleep, then the next pass.
Sleep ==
  /\ RunsMulti
  /\ UNCHANGED <<prog, singleVars, evalVars, envVars>>
  /\ pc = "sleep"
  /\ cycle < MaxCycles
  /\ cycle' = cycle + 1
  /\ pc' = "top"
  /\ UNCHANGED <<TOKENS, alerts_sent, idx, all_alerted, response, token_info,
                 sent, firedCycle, lastFailCycle, scen, cyc>>

\* ------------------------------------------------------------------------
\* solana_price_alert.py: main
\* ------------------------------------------------------------------------

\* line 91, 32: requests.get answers (or raises).
S_HttpGet ==
  /\ RunsSingle
  /\ UNCHANGED <<prog, multiVars, evalVars, envVars>>
  /\ S_pc = "get"
  /\ \E r \in Responses : S_response' = r
  /\ S_pc' = "parse"
  /\ S_fetches' = S_fetches + 1
  /\ S_cyc' = [S_cyc EXCEPT !.gets = @ + 1]
  /\ UNCHANGED <<TARGET_PRICE, alert_sent, S_cycle, S_token_info, S_sent,
                 S_firedCycle, S_lastFailCycle, S_scen, S_notifies, S_sleeps>>

\* Variant with `current_price > TARGET_PRICE`.
S_Parse_Strict ==
  /\ RunsSingle
  /\ UNCHANGED <<prog, multiVars, evalVars, envVars>>
  /\ S_pc = "parse"
  /\ LET info == get_token_price(S_response) IN
       /\ S_token_info' = info
       /\ S_scen' = ScenNext(S_scen, info)
       /\ IF Truthy(info)
          THEN LET met == info.price > TARGET_PRICE /\ ~alert_sent IN
                 /\ S_cyc' = [S_cyc EXCEPT !.fetched = "quote",
                                           !.price = info.price,
                                           !.evald = IF met THEN "true" ELSE "false"]
                 /\ S_pc' = IF met THEN "send" ELSE "sleep"
          ELSE /\ S_cyc' = [S_cyc EXCEPT !.fetched = "nodata"]
               /\ S_pc' = "sleep"
  /\ S_response' = NoResponse
  /\ UNCHANGED <<TARGET_PRICE, alert_sent, S_cycle, S_sent, S_firedCycle,
                 S_lastFailCycle, S_fetches, S_notifies, S_sleeps>>

\* line 33-50, 91-100: get_token_price returns; main tests the result and the
\* condition `current_price >= TARGET_PRICE and not alert_sent`.
S_Parse ==
  /\ RunsSingle
  /\ UNCHANGED <<prog, multiVars, evalVars, envVars>>
  /\ S_pc = "parse"
  /\ LET info == get_token_price(S_response) IN
       /\ S_token_info' = info
       /\ S_scen' = ScenNext(S_scen, info)
       /\ IF Truthy(info)
          THEN LET met == info.price >= TARGET_PRICE /\ ~alert_sent IN
                 /\ S_cyc' = [S_cyc EXCEPT !.fetched = "quote",
                                           !.price = info.price,
                                           !.evald = IF met THEN "true" ELSE "false"]
                 /\ S_pc' = IF met THEN "send" ELSE "sleep"
          ELSE /\ S_cyc' = [S_cyc EXCEPT !.fetched = "nodata"]
               /\ S_pc' = "sleep"
  /\ S_response' = NoResponse
  /\ UNCHANGED <<TARGET_PRICE, alert_sent, S_cycle, S_sent, S_firedCycle,
                 S_lastFailCycle, S_fetches, S_notifies, S_sleeps>>

\* Variant without the `break` of line 110.
S_Send_NoBreak ==
  /\ RunsSingle
  /\ UNCHANGED <<prog, multiVars, evalVars, envVars>>
  /\ S_pc = "send"
  /\ S_notifies' = S_notifies + 1
  /\ \E outcome \in PostOutcomes :
       IF send_pushover_alert(outcome)
       THEN /\ alert_sent' = TRUE
            /\ S_sent' = S_sent + 1
            /\ S_firedCycle' = S_cycle
            /\ S_cyc' = [S_cyc EXCEPT !.notified = "ok"]
            /\ UNCHANGED S_lastFailCycle
       ELSE /\ S_lastFailCycle' = S_cycle
            /\ S_cyc' = [S_cyc EXCEPT !.notified = "fail"]
            /\ UNCHANGED <<alert_sent, S_sent, S_firedCycle>>
  /\ S_pc' = "sleep"
  /\ UNCHANGED <<TARGET_PRICE, S_cycle, S_response, S_token_info, S_scen,
                 S_fetches, S_sleeps>>

\* line 107-110, 53-75: send_pushover_alert is called; on True the flag is set
\* and the loop is left.
S_Send ==
  /\ RunsSingle
  /\ UNCHANGED <<prog, multiVars, evalVars, envVars>>
  /\ S_pc = "send"
  /\ S_notifies' = S_notifies + 1
  /\ \E outcome \in PostOutcomes :
       IF send_pushover_alert(outcome)
       THEN /\ alert_sent' = TRUE
            /\ S_sent' = S_sent + 1
            /\ S_firedCycle' = S_cycle
            /\ S_cyc' = [S_cyc EXCEPT !.notified = "ok"]
            /\ S_pc' = "done"
            /\ UNCHANGED S_lastFailCycle
       ELSE /\ S_lastFailCycle' = S_cycle
            /\ S_cyc' = [S_cyc EXCEPT !.notified = "fail"]
            /\ S_pc' = "sleep"
            /\ UNCHANGED <<alert_sent, S_sent, S_firedCycle>>
  /\ UNCHANGED <<TARGET_PRICE, S_cycle, S_response, S_token_info, S_scen,
                 S_fetches, S_sleeps>>

\* line 114: time.sleep, then the next pass.
S_Sleep ==
  /\ RunsSingle
  /\ UNCHANGED <<prog, multiVars, evalVars, envVars>>
  /\ S_pc = "sleep"
  /\ S_cycle < MaxCycles
  /\ S_cycle' = S_cycle + 1
  /\ S_sleeps' = S_sleeps + 1
  /\ S_pc' = "get"
  /\ S_cyc' = NotYet
  /\ UNCHANGED <<TARGET_PRICE, alert_sent, S_response, S_token_info, S_sent,
                 S_firedCycle, S_lastFailCycle, S_scen, S_fetches, S_notifies>>

MultiNext ==
  CycleStart \/ ForStep \/ HttpGet \/ Parse \/ Check \/ Send \/ ExitCheck
    \/ Sleep

SingleNext == S_HttpGet \/ S_Parse \/ S_Send \/ S_Sleep

Next ==
  \/ CycleStart
  \/ ForStep
  \/ HttpGet
  \/ Parse
  \/ Check
  \/ Send
  \/ ExitCheck
  \/ Sleep
  \/ S_HttpGet
  \/ S_Parse
  \/ S_Send
  \/ S_Sleep

Spec == Init /\ [][Next]_vars

\* ------------------------------------------------------------------------
\* check_price_condition applied on its own to bounded inputs
\* ------------------------------------------------------------------------
EvalPrices == Prices \cup {0}

\* Direction values of the configuration, the two the program knows and
\* others a hand-written TOKENS entry can hold.
EvalDirections == Directions \cup {"sideways", "ABOVE", ""}

InitEval ==
  /\ prog = "eval"
  /\ MultiIdle
  /\ SingleIdle
  /\ e_price \in EvalPrices
  /\ e_config \in {Watch("A", t, d) : t \in Prices, d \in EvalDirections}
  /\ e_result = FALSE
  /\ e_pc = "call"
  /\ EnvIdle

\* line 110-115: the call returns its value; nothing else is read or written.
Apply ==
  /\ prog = "eval"
  /\ e_pc = "call"
  /\ e_result' = check_price_condition(e_price, e_config)
  /\ e_pc' = "returned"
  /\ UNCHANGED <<prog, multiVars, singleVars, envVars, e_price, e_config>>

NextEval == Apply

SpecEval == InitEval /\ [][NextEval]_vars

\* ========================================================================
\* Properties
\* ========================================================================
Configured == {TOKENS[i].addr : i \in 1..Len(TOKENS)}

\* C1: in a run of the multi-token loop, send_pushover_alert returns True at
\* most once for every configured token, whatever the fetches and notify
\* outcomes were.
C1_AtMostOneNotification ==
  prog = "multi" => \A a \in Addrs : sent[a] <= 1

\* A token was notified after an earlier failed notify, and a later pass
\* reached it again and skipped it.
C1_Witness ==
  /\ prog = "multi"
  /\ sent["A"] = 1
  /\ lastFailCycle["A"] > 0
  /\ cycle > firedCycle["A"]
  /\ cyc["A"].skipped

\* C2: the ledger is empty at process start and only grows, and
\* send_pushover_alert is never reached for a token that is in the ledger.
C2_LedgerGrowsOnly ==
  /\ (prog = "multi" => alerts_sent = {})
  /\ [][/\ alerts_sent \subseteq alerts_sent'
        /\ pc' = "send" => TOKENS'[idx'].addr \notin alerts_sent']_vars

\* One token is in the ledger while the other one is being notified in a
\* later pass.
C2_Witness ==
  /\ prog = "multi"
  /\ pc = "send"
  /\ token_address = "B"
  /\ "A" \in alerts_sent
  /\ cycle > firedCycle["A"]

AllFired == Len(TOKENS) > 0 /\ Configured \subseteq alerts_sent

LastFiringCycle ==
  CHOOSE c \in 0..MaxCycles + 1 :
    /\ \A a \in Configured : firedCycle[a] <= c
    /\ \E a \in Configured : firedCycle[a] = c

\* C3: the multi-token loop terminates in the very pass in which the last
\* unfired watch is marked fired, without sleeping or running another pass;
\* with A fired in pass 2 and B in pass 3 (no notify failure) it terminates
\* after pass 3 with two notifications sent.
C3_TerminatesInLastFiringCycle ==
  /\ (prog = "multi" /\ AllFired) =>
       /\ pc \notin {"sleep", "top"}
       /\ cycle = LastFiringCycle
  /\ (/\ prog = "multi"
      /\ Len(TOKENS) = 2
      /\ firedCycle["A"] = 2
      /\ firedCycle["B"] = 3
      /\ lastFailCycle = [a \in Addrs |-> 0]) =>
       /\ cycle = 3
       /\ pc # "sleep"
       /\ pc = "done" => sent["A"] + sent["B"] = 2

MissingPrice(r) ==
  r.kind = "json" /\ r.pairs = "list" /\ r.price_field = "absent"

\* C4: a response whose first pair has no price field makes the fetcher
\* return "no data", so that the token is neither evaluated nor notified in
\* that pass.
C4_MissingPriceIsNoData ==
  [][/\ (pc = "parse" /\ MissingPrice(response)) =>
          (token_info' = None /\ pc' = "for")
     /\ (S_pc = "parse" /\ MissingPrice(S_response)) =>
          (S_token_info' = None /\ S_pc' = "sleep")]_vars

\* C5: when a fetch returns no data for a token, then in that pass the token
\* is not evaluated and not notified, the ledger is unchanged, and the loop
\* does not terminate: it goes on to the sleep and the next pass.
C5_NoDataSkipsToken ==
  /\ [](\A a \in Addrs :
          cyc[a].fetched = "nodata" =>
            /\ cyc[a].evald = "no"
            /\ cyc[a].notified = "no"
            /\ a \notin alerts_sent
            /\ pc # "done")
  /\ [](S_cyc.fetched = "nodata" =>
          /\ S_cyc.evald = "no"
          /\ S_cyc.notified = "no"
          /\ ~alert_sent
          /\ S_pc = "sleep")
  /\ [][/\ (pc = "parse" /\ token_info' = None) =>
             (pc' = "for" /\ alerts_sent' = alerts_sent)
        /\ (pc = "exit_check" /\ \E a \in Addrs : cyc[a].fetched = "nodata") =>
             pc' = "sleep"
        /\ (S_pc = "parse" /\ S_token_info' = None) =>
             (S_pc' = "sleep" /\ alert_sent' = alert_sent)]_vars

\* A pass in which B's fetch returned no data has ended in the sleep, after A
\* was notified in the same pass.
C5_Witness ==
  /\ prog = "multi"
  /\ pc = "sleep"
  /\ cyc["B"].fetched = "nodata"
  /\ cyc["A"].notified = "ok"

\* C6: a failed notify leaves the token out of the ledger, and in the next
\* pass the token is fetched again, evaluated when a quote came, and notified
\* when the condition holds; when the notify fails in one pass and succeeds in
\* the next, the token is in the ledger only from the successful call on and
\* exactly one notification counts as sent.
C6_FailedNotifyIsRetried ==
  prog = "multi" =>
    \A i \in 1..Len(TOKENS) :
      LET a == TOKENS[i].addr
          w == TOKENS[i]
          qualifies ==
            \/ w.direction = "above" /\ cyc[a].price >= w.target
            \/ w.direction = "below" /\ cyc[a].price <= w.target
      IN
        /\ cyc[a].notified = "fail" => a \notin alerts_sent
        /\ a \in alerts_sent <=> sent[a] = 1
        /\ a \in alerts_sent => firedCycle[a] > lastFailCycle[a]
        /\ (/\ lastFailCycle[a] > 0
            /\ lastFailCycle[a] = cycle - 1
            /\ pc \in {"exit_check", "sleep"}) =>
             /\ cyc[a].fetched # "no"
             /\ cyc[a].fetched = "quote" => cyc[a].evald # "no"
             /\ (cyc[a].fetched = "quote" /\ qualifies) =>
                  cyc[a].notified # "no"
        /\ (lastFailCycle[a] > 0 /\ firedCycle[a] = lastFailCycle[a] + 1) =>
             (sent[a] = 1 /\ a \in alerts_sent)

\* A's notify failed in one pass and succeeded in the next.
C6_Witness ==
  /\ prog = "multi"
  /\ lastFailCycle["A"] > 0
  /\ firedCycle["A"] = lastFailCycle["A"] + 1
  /\ sent["A"] = 1
  /\ "A" \in alerts_sent

\* C7: for directions "above" and "below", check_price_condition returns TRUE
\* exactly when (above and price >= target) or (below and price <= target),
\* price = target included; applying it changes nothing but its result.
C7_EvaluatorRule ==
  (e_pc = "returned" /\ e_config.direction \in Directions) =>
    /\ e_result <=>
         \/ e_config.direction = "above" /\ e_price >= e_config.target
         \/ e_config.direction = "below" /\ e_price <= e_config.target
    /\ MultiIdle
    /\ SingleIdle

\* The evaluator returned TRUE for a "below" watch whose price equals the target.
C7_Witness ==
  /\ e_pc = "returned"
  /\ e_config.direction = "below"
  /\ e_price = e_config.target
  /\ e_result


\* The rule of the spec's Condition Evaluator, written out.
Qualifies(p, w) ==
  \/ w.direction = "above" /\ p >= w.target
  \/ w.direction = "below" /\ p <= w.target

\* The for loop of the current pass has ended.
PassEnded == pc \in {"exit_check", "sleep", "done"}

\* C8: a notification is attempted in every pass whose fetched quote satisfies
\* the condition and in no pass whose quote does not, so with notify
\* succeeding it is sent on the first qualifying quote; for target 0.03, ABOVE
\* and fetched prices 0.02, 0.025, 0.031 exactly one notification is sent, in
\* the third pass, and none before.
C8_FirstQualifyingQuoteNotifies ==
  /\ prog = "multi" =>
       \A i \in 1..Len(TOKENS) :
         LET a == TOKENS[i].addr
             w == TOKENS[i]
         IN
           /\ cyc[a].notified # "no" =>
                (cyc[a].fetched = "quote" /\ Qualifies(cyc[a].price, w))
           /\ (PassEnded /\ cyc[a].fetched = "quote"
                 /\ Qualifies(cyc[a].price, w)) => cyc[a].notified # "no"
           /\ (w = Watch("A", 30, "above") /\ lastFailCycle[a] = 0
                 /\ PassEnded) =>
                /\ scen[a] \in {1, 2} => (sent[a] = 0 /\ cyc[a].notified = "no")
                /\ scen[a] = 3 => (sent[a] = 1 /\ firedCycle[a] = 3)
  /\ prog = "single" =>
       /\ S_cyc.notified # "no" =>
            (S_cyc.fetched = "quote" /\ S_cyc.price >= TARGET_PRICE)
       /\ (S_pc \in {"sleep", "done"} /\ S_cyc.fetched = "quote"
             /\ S_cyc.price >= TARGET_PRICE) => S_cyc.notified # "no"
       /\ (TARGET_PRICE = 30 /\ S_lastFailCycle = 0
             /\ S_pc \in {"sleep", "done"}) =>
            /\ S_scen \in {1, 2} => (S_sent = 0 /\ S_cyc.notified = "no")
            /\ S_scen = 3 => (S_sent = 1 /\ S_firedCycle = 3 /\ S_notifies = 1)

\* The multi-token loop, target 0.03 ABOVE, fetched 0.02, 0.025, 0.031 and
\* sent its one notification in the third pass.
C8_Witness ==
  /\ prog = "multi"
  /\ TOKENS = << Watch("A", 30, "above") >>
  /\ scen["A"] = 3
  /\ lastFailCycle["A"] = 0
  /\ sent["A"] = 1
  /\ firedCycle["A"] = 3
  /\ cyc["A"].price = 31

\* C9: after a failed notify, a notify call is made for the token only in a
\* pass whose freshly fetched price satisfies the condition; in a pass whose
\* fetch gave no quote or a price that moved away from the target, none is made.
C9_RetryOnlyWhenConditionHolds ==
  /\ prog = "multi" =>
       \A i \in 1..Len(TOKENS) :
         LET a == TOKENS[i].addr
             w == TOKENS[i]
         IN
           (lastFailCycle[a] > 0 /\ lastFailCycle[a] < cycle) =>
             /\ cyc[a].notified # "no" =>
                  (cyc[a].fetched = "quote" /\ Qualifies(cyc[a].price, w))
             /\ (cyc[a].fetched = "quote" /\ ~Qualifies(cyc[a].price, w)
                   /\ PassEnded) =>
                  (cyc[a].evald = "false" /\ cyc[a].notified = "no")
  /\ (prog = "single" /\ S_lastFailCycle > 0 /\ S_lastFailCycle < S_cycle
        /\ S_cyc.notified # "no") =>
       (S_cyc.fetched = "quote" /\ S_cyc.price >= TARGET_PRICE)

\* B's notify failed in the pass before, and in this pass its price had moved
\* above the target again: the pass ended without a notify call for B.
C9_Witness ==
  /\ prog = "multi"
  /\ Len(TOKENS) = 2
  /\ lastFailCycle["B"] = cycle - 1
  /\ lastFailCycle["B"] > 0
  /\ pc = "sleep"
  /\ cyc["B"].fetched = "quote"
  /\ cyc["B"].price > 10
  /\ cyc["B"].notified = "no"

\* C10: the single-token program has exited exactly when one
\* send_pushover_alert has returned True: at the exit nothing more can happen
\* (no fetch, no notify, no sleep after the successful call), and a failed
\* notify or a missing quote never ends the loop.
C10_SingleExitsOnFirstSuccess ==
  prog = "single" =>
    /\ S_sent >= 1 <=> S_pc = "done"
    /\ S_pc = "done" =>
         /\ S_sent = 1
         /\ alert_sent
         /\ S_cyc.notified = "ok"
         /\ S_fetches = S_firedCycle
         /\ S_sleeps = S_firedCycle - 1
         /\ S_cycle = S_firedCycle
         /\ ~ENABLED (S_HttpGet \/ S_Parse \/ S_Send \/ S_Sleep)
    /\ S_cyc.notified = "fail" => S_pc = "sleep"
    /\ S_cyc.fetched = "nodata" => S_pc = "sleep"

\* The single-token program exited in its third pass, after a pass without a
\* quote and a pass with a failed notify.
C10_Witness ==
  /\ prog = "single"
  /\ S_pc = "done"
  /\ S_firedCycle = 3
  /\ S_lastFailCycle = 2
  /\ S_notifies = 2
  /\ S_fetches = 3


\* The record of a token whose steps of the pass are all done.
Complete(c) ==
  \/ c = [NotYet EXCEPT !.skipped = TRUE]
  \/ /\ ~c.skipped
     /\ c.gets = 1
     /\ \/ c.fetched = "nodata" /\ c.evald = "no" /\ c.notified = "no"
        \/ c.fetched = "quote" /\ c.evald = "false" /\ c.notified = "no"
        \/ c.fetched = "quote" /\ c.evald = "true" /\ c.notified \in {"ok", "fail"}

\* C11: within a pass the tokens are processed one after another: while a
\* token is being fetched, evaluated or notified, every token before it has
\* all its steps done, ledger update included, and no token after it has
\* begun; each step touches only the current token, and the ledger is written
\* only by the send step, for the current token.
C11_TokensOneAfterAnother ==
  /\ [](prog = "multi" =>
         \A i \in 1..Len(TOKENS) :
           LET a == TOKENS[i].addr IN
             /\ i > idx => cyc[a] = NotYet
             /\ (i < idx \/ (i = idx /\ pc \notin {"get", "parse", "check", "send"})) =>
                  /\ Complete(cyc[a])
                  /\ cyc[a].notified = "ok" => a \in alerts_sent)
  /\ [][prog = "multi" =>
          /\ \A a \in Addrs :
               cyc'[a] # cyc[a] => (pc = "top" \/ a = TOKENS[idx'].addr)
          /\ alerts_sent' # alerts_sent =>
               (pc = "send" /\ alerts_sent' = alerts_sent \cup {token_address})]_vars

\* B's fetch is about to start in a pass in which A was notified and recorded.
C11_Witness ==
  /\ prog = "multi"
  /\ pc = "get"
  /\ token_address = "B"
  /\ cyc["A"].notified = "ok"
  /\ "A" \in alerts_sent
  /\ cyc["B"] = NotYet


\* C12: the multi-token loop is left only by its termination rule: when it
\* has reached DONE every configured watch is in the ledger (and there is at
\* least one), and while a watch is unfired the loop is not at DONE and has a
\* next step, whatever failed before (the sleep of the last explored pass
\* excepted).
C12_ExitsOnlyWhenAllFired ==
  prog = "multi" =>
    /\ pc = "done" => AllFired
    /\ ~AllFired =>
         /\ pc # "done"
         /\ \/ ENABLED MultiNext
            \/ pc = "sleep" /\ cycle = MaxCycles

\* The last explored pass ended in the sleep, nothing fired: A's notify failed
\* in this pass, B's notify failed in an earlier pass and B got no data now.
C12_Witness ==
  /\ prog = "multi"
  /\ Len(TOKENS) = 2
  /\ pc = "sleep"
  /\ cycle = MaxCycles
  /\ alerts_sent = {}
  /\ lastFailCycle["A"] = cycle
  /\ cyc["A"].notified = "fail"
  /\ cyc["B"].fetched = "nodata"
  /\ lastFailCycle["B"] > 0


\* The token was in the ledger before the current pass began.
FiredBefore(a) == a \in alerts_sent /\ firedCycle[a] < cycle

\* C14: in every pass a token that is already in the ledger is skipped
\* entirely (no fetch, no evaluation, no notify), and every other token is
\* fetched exactly once in that pass, whatever happened to the other tokens
\* in the same pass.
C14_FiredSkippedOthersFetchedOnce ==
  prog = "multi" =>
    \A i \in 1..Len(TOKENS) :
      LET a == TOKENS[i].addr IN
        /\ cyc[a].gets <= 1
        /\ cyc[a].skipped =>
             (cyc[a] = [NotYet EXCEPT !.skipped = TRUE] /\ FiredBefore(a))
        /\ (PassEnded \/ (pc # "top" /\ i < idx)) =>
             IF FiredBefore(a)
             THEN cyc[a] = [NotYet EXCEPT !.skipped = TRUE]
             ELSE cyc[a].gets = 1 /\ ~cyc[a].skipped /\ cyc[a].fetched # "no"

\* A pass after the first ended with B in the ledger and skipped, and A
\* fetched once without data.
C14_Witness ==
  /\ prog = "multi"
  /\ pc = "sleep"
  /\ cycle > 1
  /\ cyc["B"] = [NotYet EXCEPT !.skipped = TRUE]
  /\ cyc["A"].gets = 1
  /\ cyc["A"].fetched = "nodata"

\* The watch configured for address a.
WatchOf(a) == CHOOSE w \in {TOKENS[i] : i \in 1..Len(TOKENS)} : w.addr = a

\* The step that puts a token in the ledger is the notify step of a pass in
\* which the fetch returned a quote, the evaluator returned true on that
\* quote, and the notify made with that quote succeeded.
LedgerWrittenOnlyOnSuccess ==
  alerts_sent' # alerts_sent =>
    /\ pc = "send"
    /\ alerts_sent' = alerts_sent \cup {token_address}
    /\ Truthy(token_info)
    /\ cyc[token_address].fetched = "quote"
    /\ cyc[token_address].price = token_info.price
    /\ cyc[token_address].evald = "true"
    /\ check_price_condition(token_info.price, CurWatch)
    /\ cyc'[token_address].notified = "ok"
    /\ sent'[token_address] = sent[token_address] + 1

\* Every token of the ledger has a pass in which it fired, and the record of
\* that pass shows quote, true evaluation and successful notify.
LedgerEntriesJustified ==
  prog = "multi" =>
    \A a \in alerts_sent :
      /\ a \in Configured
      /\ firedCycle[a] \in 1..cycle
      /\ sent[a] >= 1
      /\ (firedCycle[a] = cycle) =>
           /\ cyc[a].fetched = "quote"
           /\ cyc[a].evald = "true"
           /\ cyc[a].notified = "ok"
           /\ Qualifies(cyc[a].price, WatchOf(a))

\* C15: a token is in the ledger only if in some pass its fetch returned a
\* quote, the evaluator returned true on that quote, and the notify made with
\* that quote succeeded; a missing quote, a false evaluation or a failed
\* notify never marks it.
C15_LedgerOnlyAfterQuoteTrueSuccess ==
  /\ []LedgerEntriesJustified
  /\ [][LedgerWrittenOnlyOnSuccess]_vars

\* A token entered the ledger in a pass after one in which its notify
\* failed, while the other token got no data in this pass.
C15_Witness ==
  /\ prog = "multi"
  /\ "B" \in alerts_sent
  /\ firedCycle["B"] = cycle
  /\ lastFailCycle["B"] \in 1..(cycle - 1)
  /\ cyc["B"].notified = "ok"
  /\ cyc["A"].fetched = "nodata"
  /\ "A" \notin alerts_sent

\* ------------------------------------------------------------------------
\* The multi-token loop run without end: the pass counter is not advanced,
\* and in each pass the environment decides for which tokens the endpoints
\* answer in their favour (a quote that satisfies the condition, a delivered
\* notification); for the other tokens they answer anything.
\* ------------------------------------------------------------------------
InitLive ==
  /\ prog = "multi"
  /\ MultiInit
  /\ SingleIdle
  /\ EvalIdle
  /\ EnvIdle

\* line 134-138: a pass begins.
L_CycleStart ==
  /\ prog = "multi"
  /\ pc = "top"
  /\ all_alerted' = TRUE
  /\ idx' = 0
  /\ cyc' = [a \in Addrs |-> NotYet]
  /\ pc' = "for"
  /\ good' \in [Addrs -> BOOLEAN]
  /\ UNCHANGED <<TOKENS, alerts_sent, cycle, response, token_info, sent,
                 firedCycle, lastFailCycle, scen>>
  /\ UNCHANGED <<prog, singleVars, evalVars, feedResp, feedPost>>

GoodResponses(w) ==
  {r \in Responses :
     Truthy(get_token_price(r)) /\ Qualifies(get_token_price(r).price, w)}

\* line 146, 63: requests.get answers.
L_HttpGet ==
  /\ prog = "multi"
  /\ pc = "get"
  /\ \E r \in (IF good[token_address] THEN GoodResponses(CurWatch)
                                     ELSE Responses) : response' = r
  /\ pc' = "parse"
  /\ cyc' = [cyc EXCEPT ![token_address].gets = @ + 1]
  /\ UNCHANGED <<TOKENS, alerts_sent, cycle, idx, all_alerted, token_info,
                 sent, firedCycle, lastFailCycle, scen>>
  /\ UNCHANGED <<prog, singleVars, evalVars, envVars>>

\* line 170-171, 83-107: send_pushover_alert is called.
L_Send ==
  /\ prog = "multi"
  /\ pc = "send"
  /\ \E outcome \in (IF good[token_address] THEN {"ok"} ELSE PostOutcomes) :
       IF send_pushover_alert(outcome)
       THEN /\ alerts_sent' = alerts_sent \cup {token_address}
            /\ sent' = [sent EXCEPT ![token_address] = @ + 1]
            /\ firedCycle' = [firedCycle EXCEPT ![token_address] = cycle]
            /\ cyc' = [cyc EXCEPT ![token_address].notified = "ok"]
            /\ UNCHANGED lastFailCycle
       ELSE /\ lastFailCycle' = [lastFailCycle EXCEPT ![token_address] = cycle]
            /\ cyc' = [cyc EXCEPT ![token_address].notified = "fail"]
            /\ UNCHANGED <<alerts_sent, sent, firedCycle>>
  /\ pc' = "for"
  /\ UNCHANGED <<TOKENS, cycle, idx, all_alerted, response, token_info, scen>>
  /\ UNCHANGED <<prog, singleVars, evalVars, envVars>>

\* line 180: time.sleep returns and the next pass begins.
L_Sleep ==
  /\ prog = "multi"
  /\ pc = "sleep"
  /\ pc' = "top"
  /\ UNCHANGED <<TOKENS, alerts_sent, cycle, idx, all_alerted, response,
                 token_info, sent, firedCycle, lastFailCycle, scen, cyc>>
  /\ UNCHANGED <<prog, singleVars, evalVars, envVars>>

NextLive ==
  \/ L_CycleStart
  \/ ForStep
  \/ L_HttpGet
  \/ Parse
  \/ Check
  \/ L_Send
  \/ ExitCheck
  \/ L_Sleep

\* The loop is one thread whose calls all return (the requests have a
\* timeout, the sleep is finite): it always takes its next step.
SpecLive == InitLive /\ [][NextLive]_vars /\ WF_vars(NextLive)

FavourableInfinitelyOften ==
  \A a \in Addrs : []<>(a \notin Configured \/ good[a])

\* C13 as stated: if every watch has infinitely many passes in which its
\* fetch returns a qualifying quote and its notify succeeds, the loop
\* eventually has every watch fired and reaches DONE.
C13_EventuallyDone_AnyConfig ==
  FavourableInfinitelyOften => <>(pc = "done" /\ Configured \subseteq alerts_sent)

\* C13, amended: the same with at least one watch configured.
C13_EventuallyDone ==
  (Len(TOKENS) > 0 /\ FavourableInfinitelyOften) =>
    <>(pc = "done" /\ Configured \subseteq alerts_sent)

\* Both watches fired and the loop reached DONE although A's notify had
\* failed once and B's fetch had not been favoured in the last pass it ran.
C13_Witness ==
  /\ prog = "multi"
  /\ Len(TOKENS) = 2
  /\ pc = "done"
  /\ alerts_sent = {"A", "B"}
  /\ lastFailCycle["A"] > 0


\* No fetch and no notify has been made or is under way.
NoFetchNoNotify ==
  /\ pc \notin {"get", "parse", "check", "send"}
  /\ response = NoResponse
  /\ \A a \in Addrs : cyc[a].gets = 0 /\ cyc[a].notified = "no" /\ sent[a] = 0

\* C16: with an empty TOKENS the loop never reaches its exit; it goes on
\* passing and sleeping forever and makes no fetch and no notify.
C16_EmptyConfigNeverExits ==
  Len(TOKENS) = 0 =>
    /\ [](pc # "done" /\ NoFetchNoNotify)
    /\ []<>(pc = "sleep")
    /\ []<>(pc = "top")

\* With an empty TOKENS a pass has ended with all_alerted still true, and the
\* exit test sent the loop to sleep.
C16_Witness ==
  /\ prog = "multi"
  /\ Len(TOKENS) = 0
  /\ all_alerted
  /\ pc = "sleep"


\* C18: for every direction value other than "above" the evaluator returns
\* price <= target, so a watch with an unrecognised direction fires exactly
\* when a "below" watch with the same target would.
C18_OtherDirectionsAreBelow ==
  (e_pc = "returned" /\ e_config.direction # "above") =>
    /\ e_result <=> (e_price <= e_config.target)
    /\ e_result <=>
         check_price_condition(e_price, [e_config EXCEPT !.direction = "below"])

\* The evaluator returned TRUE for a watch whose direction is the upper-case
\* spelling "ABOVE" and whose price is under the target.
C18_Witness ==
  /\ e_pc = "returned"
  /\ e_config.direction = "ABOVE"
  /\ e_price < e_config.target
  /\ e_result


\* ------------------------------------------------------------------------
\* Both programs run side by side on one token: solana_multi_alert.py with
\* one "above" watch and solana_price_alert.py with the same target.  They
\* share no state.  In each pass the endpoints give both programs the same
\* answers: the first program to ask fixes the answer of the pass, the other
\* receives the same one.  A pass of one program is held until the other has
\* ended the pass of the same number, so that the passes can be compared.
\* ------------------------------------------------------------------------
InitPair ==
  /\ prog = "pair"
  /\ \E t \in TargetPrices :
       /\ TOKENS = <<Watch("A", t, "above")>>
       /\ TARGET_PRICE = t
  /\ alerts_sent = {}
  /\ pc = "top"
  /\ cycle = 1
  /\ idx = 0
  /\ all_alerted = FALSE
  /\ response = NoResponse
  /\ token_info = None
  /\ sent = [a \in Addrs |-> 0]
  /\ firedCycle = [a \in Addrs |-> 0]
  /\ lastFailCycle = [a \in Addrs |-> 0]
  /\ scen = [a \in Addrs |-> 0]
  /\ cyc = [a \in Addrs |-> NotYet]
  /\ alert_sent = FALSE
  /\ S_pc = "get"
  /\ S_cycle = 1
  /\ S_response = NoResponse
  /\ S_token_info = None
  /\ S_sent = 0
  /\ S_firedCycle = 0
  /\ S_lastFailCycle = 0
  /\ S_scen = 0
  /\ S_cyc = NotYet
  /\ S_fetches = 0
  /\ S_notifies = 0
  /\ S_sleeps = 0
  /\ EvalIdle
  /\ EnvIdle

\* What the price endpoint can answer in this pass.
PassResponses == IF feedResp = NoResponse THEN Responses ELSE {feedResp}

\* What the notification endpoint can answer in this pass.
PassPostOutcomes == IF feedPost = "unset" THEN PostOutcomes ELSE {feedPost}

\* solana_multi_alert.py line 63: requests.get.
P_HttpGet ==
  /\ prog = "pair"
  /\ pc = "get"
  /\ \E r \in PassResponses :
       /\ response' = r
       /\ feedResp' = r
  /\ pc' = "parse"
  /\ cyc' = [cyc EXCEPT ![token_address].gets = @ + 1]
  /\ UNCHANGED <<TOKENS, alerts_sent, cycle, idx, all_alerted, token_info,
                 sent, firedCycle, lastFailCycle, scen>>
  /\ UNCHANGED <<prog, singleVars, evalVars, good, feedPost>>

\* solana_multi_alert.py line 170-171: send_pushover_alert and the ledger.
P_Send ==
  /\ prog = "pair"
  /\ pc = "send"
  /\ \E outcome \in PassPostOutcomes :
       /\ feedPost' = outcome
       /\ IF send_pushover_alert(outcome)
          THEN /\ alerts_sent' = alerts_sent \cup {token_address}
               /\ sent' = [sent EXCEPT ![token_address] = @ + 1]
               /\ firedCycle' = [firedCycle EXCEPT ![token_address] = cycle]
               /\ cyc' = [cyc EXCEPT ![token_address].notified = "ok"]
               /\ UNCHANGED lastFailCycle
          ELSE /\ lastFailCycle' =
                    [lastFailCycle EXCEPT ![token_address] = cycle]
               /\ cyc' = [cyc EXCEPT ![token_address].notified = "fail"]
               /\ UNCHANGED <<alerts_sent, sent, firedCycle>>
  /\ pc' = "for"
  /\ UNCHANGED <<TOKENS, cycle, idx, all_alerted, response, token_info, scen>>
  /\ UNCHANGED <<prog, singleVars, evalVars, good, feedResp>>

\* solana_price_alert.py line 32: requests.get.
P_S_HttpGet ==
  /\ prog = "pair"
  /\ S_pc = "get"
  /\ \E r \in PassResponses :
       /\ S_response' = r
       /\ feedResp' = r
  /\ S_pc' = "parse"
  /\ S_fetches' = S_fetches + 1
  /\ S_cyc' = [S_cyc EXCEPT !.gets = @ + 1]
  /\ UNCHANGED <<TARGET_PRICE, alert_sent, S_cycle, S_token_info, S_sent,
                 S_firedCycle, S_lastFailCycle, S_scen, S_notifies, S_sleeps>>
  /\ UNCHANGED <<prog, multiVars, evalVars, good, feedPost>>

\* solana_price_alert.py line 107-110: send_pushover_alert, alert_sent, break.
P_S_Send ==
  /\ prog = "pair"
  /\ S_pc = "send"
  /\ S_notifies' = S_notifies + 1
  /\ \E outcome \in PassPostOutcomes :
       /\ feedPost' = outcome
       /\ IF send_pushover_alert(outcome)
          THEN /\ alert_sent' = TRUE
               /\ S_sent' = S_sent + 1
               /\ S_firedCycle' = S_cycle
               /\ S_cyc' = [S_cyc EXCEPT !.notified = "ok"]
               /\ S_pc' = "done"
               /\ UNCHANGED S_lastFailCycle
          ELSE /\ S_lastFailCycle' = S_cycle
               /\ S_cyc' = [S_cyc EXCEPT !.notified = "fail"]
               /\ S_pc' = "sleep"
               /\ UNCHANGED <<alert_sent, S_sent, S_firedCycle>>
  /\ UNCHANGED <<TARGET_PRICE, S_cycle, S_response, S_token_info, S_scen,
                 S_fetches, S_sleeps>>
  /\ UNCHANGED <<prog, multiVars, evalVars, good, feedResp>>


\* solana_multi_alert.py line 180 and solana_price_alert.py line 114:
\* time.sleep in each program that has not left its loop, once both have
\* ended the pass; the endpoints' answers of the next pass are open again.
P_Sleep ==
  /\ prog = "pair"
  /\ pc \in {"sleep", "done"}
  /\ S_pc \in {"sleep", "done"}
  /\ pc = "sleep" \/ S_pc = "sleep"
  /\ IF pc = "sleep"
     THEN /\ cycle < MaxCycles
          /\ cycle' = cycle + 1
          /\ pc' = "top"
     ELSE UNCHANGED <<cycle, pc>>
  /\ IF S_pc = "sleep"
     THEN /\ S_cycle < MaxCycles
          /\ S_cycle' = S_cycle + 1
          /\ S_sleeps' = S_sleeps + 1
          /\ S_pc' = "get"
          /\ S_cyc' = NotYet
     ELSE UNCHANGED <<S_cycle, S_sleeps, S_pc, S_cyc>>
  /\ feedResp' = NoResponse
  /\ feedPost' = "unset"
  /\ UNCHANGED <<TOKENS, alerts_sent, idx, all_alerted, response, token_info,
                 sent, firedCycle, lastFailCycle, scen, cyc>>
  /\ UNCHANGED <<TARGET_PRICE, alert_sent, S_response, S_token_info, S_sent,
                 S_firedCycle, S_lastFailCycle, S_scen, S_fetches, S_notifies>>
  /\ UNCHANGED <<prog, evalVars, good>>

NextPair ==
  \/ CycleStart
  \/ ForStep
  \/ P_HttpGet
  \/ Parse
  \/ Check
  \/ P_Send
  \/ ExitCheck
  \/ P_S_HttpGet
  \/ S_Parse
  \/ P_S_Send
  \/ P_Sleep

SpecPair == InitPair /\ [][NextPair]_vars

\* Both programs have ended the pass of the same number.
SamePassEnded ==
  /\ PassEnded
  /\ S_pc \in {"sleep", "done"}
  /\ cycle = S_cycle

\* C17: given the same fetch results and notify outcomes, the single-token
\* program and the multi-token program with one "above" watch of the same
\* target call notify in the same passes with the same results and send the
\* same number of notifications; the multi-token program differs only in
\* one more pass, without fetch, before it exits.
C17_SingleAndMultiAgree ==
  prog = "pair" =>
    /\ cycle \in {S_cycle, S_cycle + 1}
    /\ sent["A"] <= S_sent + 1
    /\ SamePassEnded =>
         /\ cyc["A"].gets = S_cyc.gets
         /\ cyc["A"].fetched = S_cyc.fetched
         /\ cyc["A"].evald = S_cyc.evald
         /\ cyc["A"].notified = S_cyc.notified
         /\ sent["A"] = S_sent
         /\ firedCycle["A"] = S_firedCycle
         /\ lastFailCycle["A"] = S_lastFailCycle
         /\ ("A" \in alerts_sent) <=> alert_sent
         /\ ("A" \in alerts_sent) <=> (S_pc = "done")
         /\ pc # "done"
    /\ (cycle = S_cycle + 1) =>
         /\ S_pc = "done"
         /\ pc \in {"top", "for", "exit_check", "done"}
         /\ sent["A"] = S_sent
         /\ firedCycle["A"] = S_cycle
         /\ pc # "top" => cyc["A"].gets = 0 /\ cyc["A"].notified = "no"
    /\ (pc = "done") =>
         /\ cycle = S_cycle + 1
         /\ cyc["A"] = [NotYet EXCEPT !.skipped = TRUE]

\* Both programs have exited after a failed notify in one pass and a
\* delivered one in a later pass; the multi-token program exited one pass
\* later, and that pass made no fetch.
C17_Witness ==
  /\ prog = "pair"
  /\ pc = "done"
  /\ S_pc = "done"
  /\ S_lastFailCycle \in 1..(S_cycle - 1)
  /\ lastFailCycle["A"] = S_lastFailCycle
  /\ S_firedCycle = S_cycle
  /\ cycle = S_cycle + 1
  /\ S_sent = 1
  /\ sent["A"] = 1
  /\ cyc["A"].gets = 0

====
